---- MODULE Spec2Model ----
(***************************************************************************)
(* Model of CodeRunnerBot: the fenced-message parser, the language         *)
(* resolver, the output chunker (splitOutput), the cropper (cropMessage)   *)
(* and the command handlers that compose them.                             *)
(*                                                                         *)
(* A Go string is a sequence of one-character strings; Go's 0-based        *)
(* half-open slice s[lo:hi] is Slice(s, lo, hi).                           *)
(***************************************************************************)
EXTENDS Integers, Sequences, FiniteSets, TLC

VARIABLES
    pc,               \* position of the operation under study
    build,            \* which build of the bot runs: "bot.go" or "part_000"
    output,           \* splitOutput: the output argument
    limit,            \* splitOutput: the limit argument
    messages,         \* splitOutput: the returned slice of fragments
    content,          \* m.Content of the message being parsed
    languages,        \* bot.go: the slice of canonical names filled by init()
    languageMappings, \* bot.go: canonical name -> aliases, filled by init()
    isCode,           \* outcome of isCodeMessage(content)
    parsed,           \* outcome of getLanguageAndCodeFromMessage(content)
    toCrop,           \* cropMessage: the toCrop argument
    buffer,           \* cropMessage: the buffer argument
    cropResult,       \* cropMessage: the returned text and count
    interaction,      \* the command being handled: name, channel history, option
    message,          \* the handler's local `message`: the message it runs
    events            \* the handler's calls to Discord, Exec and the error log, in order

splitVars == <<output, limit, messages>>
msgVars == <<content, languages, languageMappings, isCode, parsed>>
cropVars == <<toCrop, buffer, cropResult>>
botVars == <<interaction, message, events>>
vars == <<pc, build, splitVars, msgVars, cropVars, botVars>>

----------------------------------------------------------------------------
(* Go strings *)

NL == "\n"
CR == "\r"
\* The backtick character (U+0060), which a TLA+ string cannot hold.
BT == "BACKTICK"

\* The three backticks that open and close a code block.
Fence == <<BT, BT, BT>>

\* Go's s[lo:hi] (0-based, hi exclusive); defined for 0 <= lo <= hi <= len(s).
Slice(s, lo, hi) == SubSeq(s, lo + 1, hi)

\* Whether Go's s[lo:hi] is in range (otherwise the run-time panics).
SliceOK(s, lo, hi) == 0 <= lo /\ lo <= hi /\ hi <= Len(s)

\* fence, newline, payload, newline, fence
Fenced(payload) == Fence \o <<NL>> \o payload \o <<NL>> \o Fence

UpperChars == <<"A", "B", "C", "D", "E", "F", "G", "H", "I", "J", "K", "L", "M",
                "N", "O", "P", "Q", "R", "S", "T", "U", "V", "W", "X", "Y", "Z">>
LowerChars == <<"a", "b", "c", "d", "e", "f", "g", "h", "i", "j", "k", "l", "m",
                "n", "o", "p", "q", "r", "s", "t", "u", "v", "w", "x", "y", "z">>

\* Simple case folding of one ASCII character.
FoldChar(ch) ==
    IF \E n \in 1..Len(UpperChars) : UpperChars[n] = ch
    THEN LowerChars[CHOOSE n \in 1..Len(UpperChars) : UpperChars[n] = ch]
    ELSE ch

\* strings.EqualFold on ASCII text.
EqualFold(s, t) ==
    /\ Len(s) = Len(t)
    /\ \A n \in 1..Len(s) : FoldChar(s[n]) = FoldChar(t[n])

\* strings.ReplaceAll(s, "\r\n", "\n")
RECURSIVE ReplaceCRLF(_)
ReplaceCRLF(s) ==
    IF s = <<>> THEN <<>>
    ELSE IF Len(s) >= 2 /\ s[1] = CR /\ s[2] = NL
         THEN <<NL>> \o ReplaceCRLF(SubSeq(s, 3, Len(s)))
         ELSE <<s[1]>> \o ReplaceCRLF(Tail(s))

\* strings.Split(s, "\n"): always at least one element.
RECURSIVE SplitNL(_)
SplitNL(s) ==
    IF \A n \in 1..Len(s) : s[n] # NL THEN <<s>>
    ELSE LET at == CHOOSE n \in 1..Len(s) :
                       s[n] = NL /\ \A k \in 1..(n - 1) : s[k] # NL
         IN <<SubSeq(s, 1, at - 1)>> \o SplitNL(SubSeq(s, at + 1, Len(s)))

\* strings.Join(lines, "\n")
RECURSIVE JoinNL(_)
JoinNL(lines) ==
    IF lines = <<>> THEN <<>>
    ELSE IF Len(lines) = 1 THEN lines[1]
    ELSE lines[1] \o <<NL>> \o JoinNL(Tail(lines))

\* strings.Split(strings.ReplaceAll(m.Content, "\r\n", "\n"), "\n")
ContentLines(text) == SplitNL(ReplaceCRLF(text))

----------------------------------------------------------------------------
(* splitOutput (bot.go 554-571, identical in part_000 557-569) *)

\* Mutant: the loop also runs when the remaining output is exactly limit
\* characters long.
RECURSIVE splitLoopAtLimit(_, _, _, _)
splitLoopAtLimit(msgs, out, lim, codeLimit) ==
    IF Len(out) >= lim
    THEN splitLoopAtLimit(Append(msgs, Fenced(Slice(out, 0, codeLimit))),
                          Slice(out, lim, Len(out)), lim, codeLimit)
    ELSE Append(msgs, Fenced(out))

\* The for loop and the final append: while the remaining output is longer
\* than limit, emit its first codeLimit characters and drop its first limit
\* characters; then emit what remains.
RECURSIVE splitLoop(_, _, _, _)
splitLoop(msgs, out, lim, codeLimit) ==
    IF Len(out) > lim
    THEN splitLoop(Append(msgs, Fenced(Slice(out, 0, codeLimit))),
                   Slice(out, lim, Len(out)), lim, codeLimit)
    ELSE Append(msgs, Fenced(out))

\* Mutant: the decoration is taken to be 7 characters instead of 8.
splitOutputShortOverhead(out, lim) == splitLoop(<<>>, out, lim, lim - 7)

splitOutput(out, lim) == splitLoop(<<>>, out, lim, lim - 8)

\* The decoration splitOutput budgets for (codeLimit := limit - 8).
Overhead == 8
\* The limit the handlers pass to splitOutput.
ChunkLimit == 500

----------------------------------------------------------------------------
(* isCodeMessage (bot.go 519-530, identical in part_000 535-541) *)

\* c[0][:3] is evaluated whenever there are two lines or more, and panics
\* (slice bounds out of range) when the first line has fewer than 3 bytes.
isCodeMessage(text) ==
    LET c == ContentLines(text) IN
    IF Len(c) < 2 THEN [panicked |-> FALSE, value |-> FALSE]
    ELSE IF ~SliceOK(c[1], 0, 3) THEN [panicked |-> TRUE, value |-> FALSE]
    ELSE [panicked |-> FALSE,
          value |-> Slice(c[1], 0, 3) = Fence /\ c[Len(c)] = Fence]

----------------------------------------------------------------------------
(* The language registry *)

\* Go leaves the iteration order of a map unspecified.  Both resolvers
\* return at the first entry that matches, so what they return is decided
\* by which matching entry is visited first; every entry is visited first
\* in the rotation of the key list that starts at it.
Rotate(seq, k) ==
    [n \in 1..Len(seq) |-> seq[((n - 1 + k) % Len(seq)) + 1]]

Starts(seq) == IF seq = <<>> THEN {0} ELSE 0..(Len(seq) - 1)

\* init() of bot.go, lines 83-89: languages[i] = r.Language and
\* languageMappings[r.Language] = r.Aliases for each runtime, in order.
LanguagesOf(runtimes) == [n \in 1..Len(runtimes) |-> runtimes[n].language]

LanguageMappingsOf(runtimes) ==
    [name \in {runtimes[n].language : n \in 1..Len(runtimes)} |->
        runtimes[CHOOSE n \in 1..Len(runtimes) :
                    /\ runtimes[n].language = name
                    /\ \A k \in (n + 1)..Len(runtimes) :
                          runtimes[k].language # name].aliases]

\* The keys of a map built from `names`, each once, as a sequence.
RECURSIVE KeySeq(_)
KeySeq(names) ==
    IF names = <<>> THEN <<>>
    ELSE LET rest == KeySeq(SubSeq(names, 1, Len(names) - 1))
             last == names[Len(names)]
         IN IF \E n \in 1..Len(rest) : rest[n] = last
            THEN rest ELSE Append(rest, last)

\* part_000 352-430: the static map `languages`, written in source order.
languages_part000 ==
  <<
    \* "awk":          {"awk"}
    [language |-> <<"a", "w", "k">>,
     aliases |-> << <<"a", "w", "k">> >>],
    \* "bash":         {"bash", "sh", "zsh", "ksh", "shell"}
    [language |-> <<"b", "a", "s", "h">>,
     aliases |-> << <<"b", "a", "s", "h">>, <<"s", "h">>, <<"z", "s", "h">>, <<"k", "s", "h">>, <<"s", "h", "e", "l", "l">> >>],
    \* "befunge93":    {"befunge"}
    [language |-> <<"b", "e", "f", "u", "n", "g", "e", "9", "3">>,
     aliases |-> << <<"b", "e", "f", "u", "n", "g", "e">> >>],
    \* "brainfuck":    {"brainfuck", "bf"}
    [language |-> <<"b", "r", "a", "i", "n", "f", "u", "c", "k">>,
     aliases |-> << <<"b", "r", "a", "i", "n", "f", "u", "c", "k">>, <<"b", "f">> >>],
    \* "c":            {"c"}
    [language |-> <<"c">>,
     aliases |-> << <<"c">> >>],
    \* "c++":          {"cpp", "c++", "h"}
    [language |-> <<"c", "+", "+">>,
     aliases |-> << <<"c", "p", "p">>, <<"c", "+", "+">>, <<"h">> >>],
    \* "cjam":         {}
    [language |-> <<"c", "j", "a", "m">>,
     aliases |-> <<  >>],
    \* "clojure":      {"clojure", "clj", "clojurescript", "cljs"}
    [language |-> <<"c", "l", "o", "j", "u", "r", "e">>,
     aliases |-> << <<"c", "l", "o", "j", "u", "r", "e">>, <<"c", "l", "j">>, <<"c", "l", "o", "j", "u", "r", "e", "s", "c", "r", "i", "p", "t">>, <<"c", "l", "j", "s">> >>],
    \* "cobol":        {"cobol"}
    [language |-> <<"c", "o", "b", "o", "l">>,
     aliases |-> << <<"c", "o", "b", "o", "l">> >>],
    \* "coffeescript": {"coffeescript", "coffee-script", "coffee"}
    [language |-> <<"c", "o", "f", "f", "e", "e", "s", "c", "r", "i", "p", "t">>,
     aliases |-> << <<"c", "o", "f", "f", "e", "e", "s", "c", "r", "i", "p", "t">>, <<"c", "o", "f", "f", "e", "e", "-", "s", "c", "r", "i", "p", "t">>, <<"c", "o", "f", "f", "e", "e">> >>],
    \* "cow":          {}
    [language |-> <<"c", "o", "w">>,
     aliases |-> <<  >>],
    \* "crystal":      {"cr", "crystal"}
    [language |-> <<"c", "r", "y", "s", "t", "a", "l">>,
     aliases |-> << <<"c", "r">>, <<"c", "r", "y", "s", "t", "a", "l">> >>],
    \* "csharp":       {"csharp", "c#", "cs", "aspx-cs"}
    [language |-> <<"c", "s", "h", "a", "r", "p">>,
     aliases |-> << <<"c", "s", "h", "a", "r", "p">>, <<"c", "#">>, <<"c", "s">>, <<"a", "s", "p", "x", "-", "c", "s">> >>],
    \* "csharp.net":   {}
    [language |-> <<"c", "s", "h", "a", "r", "p", ".", "n", "e", "t">>,
     aliases |-> <<  >>],
    \* "d":            {"d"}
    [language |-> <<"d">>,
     aliases |-> << <<"d">> >>],
    \* "dart":         {"dart"}
    [language |-> <<"d", "a", "r", "t">>,
     aliases |-> << <<"d", "a", "r", "t">> >>],
    \* "dash":         {}
    [language |-> <<"d", "a", "s", "h">>,
     aliases |-> <<  >>],
    \* "dragon":       {}
    [language |-> <<"d", "r", "a", "g", "o", "n">>,
     aliases |-> <<  >>],
    \* "elixir":       {"elixir", "ex", "exs"}
    [language |-> <<"e", "l", "i", "x", "i", "r">>,
     aliases |-> << <<"e", "l", "i", "x", "i", "r">>, <<"e", "x">>, <<"e", "x", "s">> >>],
    \* "emacs":        {"emacs-lisp", "elisp", "emacs"}
    [language |-> <<"e", "m", "a", "c", "s">>,
     aliases |-> << <<"e", "m", "a", "c", "s", "-", "l", "i", "s", "p">>, <<"e", "l", "i", "s", "p">>, <<"e", "m", "a", "c", "s">> >>],
    \* "erlang":       {"erlang"}
    [language |-> <<"e", "r", "l", "a", "n", "g">>,
     aliases |-> << <<"e", "r", "l", "a", "n", "g">> >>],
    \* "file":         {}
    [language |-> <<"f", "i", "l", "e">>,
     aliases |-> <<  >>],
    \* "forte":        {}
    [language |-> <<"f", "o", "r", "t", "e">>,
     aliases |-> <<  >>],
    \* "fortran":      {"fortran"}
    [language |-> <<"f", "o", "r", "t", "r", "a", "n">>,
     aliases |-> << <<"f", "o", "r", "t", "r", "a", "n">> >>],
    \* "freebasic":    {"basic"}
    [language |-> <<"f", "r", "e", "e", "b", "a", "s", "i", "c">>,
     aliases |-> << <<"b", "a", "s", "i", "c">> >>],
    \* "fsharp.net":   {}
    [language |-> <<"f", "s", "h", "a", "r", "p", ".", "n", "e", "t">>,
     aliases |-> <<  >>],
    \* "fsi":          {"fsharp", "f#"}
    [language |-> <<"f", "s", "i">>,
     aliases |-> << <<"f", "s", "h", "a", "r", "p">>, <<"f", "#">> >>],
    \* "go":           {"go", "golang"}
    [language |-> <<"g", "o">>,
     aliases |-> << <<"g", "o">>, <<"g", "o", "l", "a", "n", "g">> >>],
    \* "golfscript":   {}
    [language |-> <<"g", "o", "l", "f", "s", "c", "r", "i", "p", "t">>,
     aliases |-> <<  >>],
    \* "groovy":       {"groovy"}
    [language |-> <<"g", "r", "o", "o", "v", "y">>,
     aliases |-> << <<"g", "r", "o", "o", "v", "y">> >>],
    \* "haskell":      {"haskell", "hs"}
    [language |-> <<"h", "a", "s", "k", "e", "l", "l">>,
     aliases |-> << <<"h", "a", "s", "k", "e", "l", "l">>, <<"h", "s">> >>],
    \* "husk":         {}
    [language |-> <<"h", "u", "s", "k">>,
     aliases |-> <<  >>],
    \* "iverilog":     {"verilog", "v"}
    [language |-> <<"i", "v", "e", "r", "i", "l", "o", "g">>,
     aliases |-> << <<"v", "e", "r", "i", "l", "o", "g">>, <<"v">> >>],
    \* "japt":         {}
    [language |-> <<"j", "a", "p", "t">>,
     aliases |-> <<  >>],
    \* "java":         {"java"}
    [language |-> <<"j", "a", "v", "a">>,
     aliases |-> << <<"j", "a", "v", "a">> >>],
    \* "javascript":   {"javascript", "js"}
    [language |-> <<"j", "a", "v", "a", "s", "c", "r", "i", "p", "t">>,
     aliases |-> << <<"j", "a", "v", "a", "s", "c", "r", "i", "p", "t">>, <<"j", "s">> >>],
    \* "jelly":        {}
    [language |-> <<"j", "e", "l", "l", "y">>,
     aliases |-> <<  >>],
    \* "julia":        {"julia", "jl"}
    [language |-> <<"j", "u", "l", "i", "a">>,
     aliases |-> << <<"j", "u", "l", "i", "a">>, <<"j", "l">> >>],
    \* "kotlin":       {"kotlin"}
    [language |-> <<"k", "o", "t", "l", "i", "n">>,
     aliases |-> << <<"k", "o", "t", "l", "i", "n">> >>],
    \* "lisp":         {"common-lisp", "cl", "lisp"}
    [language |-> <<"l", "i", "s", "p">>,
     aliases |-> << <<"c", "o", "m", "m", "o", "n", "-", "l", "i", "s", "p">>, <<"c", "l">>, <<"l", "i", "s", "p">> >>],
    \* "llvm_ir":      {"llvm"}
    [language |-> <<"l", "l", "v", "m", "_", "i", "r">>,
     aliases |-> << <<"l", "l", "v", "m">> >>],
    \* "lolcode":      {}
    [language |-> <<"l", "o", "l", "c", "o", "d", "e">>,
     aliases |-> <<  >>],
    \* "lua":          {"lua"}
    [language |-> <<"l", "u", "a">>,
     aliases |-> << <<"l", "u", "a">> >>],
    \* "nasm":         {"nasm"}
    [language |-> <<"n", "a", "s", "m">>,
     aliases |-> << <<"n", "a", "s", "m">> >>],
    \* "nasm64":       {}
    [language |-> <<"n", "a", "s", "m", "6", "4">>,
     aliases |-> <<  >>],
    \* "nim":          {"nimrod", "nim"}
    [language |-> <<"n", "i", "m">>,
     aliases |-> << <<"n", "i", "m", "r", "o", "d">>, <<"n", "i", "m">> >>],
    \* "ocaml":        {"ocaml"}
    [language |-> <<"o", "c", "a", "m", "l">>,
     aliases |-> << <<"o", "c", "a", "m", "l">> >>],
    \* "octave":       {"octave"}
    [language |-> <<"o", "c", "t", "a", "v", "e">>,
     aliases |-> << <<"o", "c", "t", "a", "v", "e">> >>],
    \* "osabie":       {}
    [language |-> <<"o", "s", "a", "b", "i", "e">>,
     aliases |-> <<  >>],
    \* "paradoc":      {}
    [language |-> <<"p", "a", "r", "a", "d", "o", "c">>,
     aliases |-> <<  >>],
    \* "pascal":       {"delphi", "pas", "pascal", "objectpascal"}
    [language |-> <<"p", "a", "s", "c", "a", "l">>,
     aliases |-> << <<"d", "e", "l", "p", "h", "i">>, <<"p", "a", "s">>, <<"p", "a", "s", "c", "a", "l">>, <<"o", "b", "j", "e", "c", "t", "p", "a", "s", "c", "a", "l">> >>],
    \* "perl":         {"perl", "pl"}
    [language |-> <<"p", "e", "r", "l">>,
     aliases |-> << <<"p", "e", "r", "l">>, <<"p", "l">> >>],
    \* "php":          {"php", "php3", "php4", "php5"}
    [language |-> <<"p", "h", "p">>,
     aliases |-> << <<"p", "h", "p">>, <<"p", "h", "p", "3">>, <<"p", "h", "p", "4">>, <<"p", "h", "p", "5">> >>],
    \* "ponylang":     {"pony"}
    [language |-> <<"p", "o", "n", "y", "l", "a", "n", "g">>,
     aliases |-> << <<"p", "o", "n", "y">> >>],
    \* "powershell":   {"powershell", "pwsh", "posh", "ps1", "psm1"}
    [language |-> <<"p", "o", "w", "e", "r", "s", "h", "e", "l", "l">>,
     aliases |-> << <<"p", "o", "w", "e", "r", "s", "h", "e", "l", "l">>, <<"p", "w", "s", "h">>, <<"p", "o", "s", "h">>, <<"p", "s", "1">>, <<"p", "s", "m", "1">> >>],
    \* "prolog":       {"prolog"}
    [language |-> <<"p", "r", "o", "l", "o", "g">>,
     aliases |-> << <<"p", "r", "o", "l", "o", "g">> >>],
    \* "pure":         {}
    [language |-> <<"p", "u", "r", "e">>,
     aliases |-> <<  >>],
    \* "pyth":         {}
    [language |-> <<"p", "y", "t", "h">>,
     aliases |-> <<  >>],
    \* "python":       {"python", "py", "sage", "python3", "py3"}
    [language |-> <<"p", "y", "t", "h", "o", "n">>,
     aliases |-> << <<"p", "y", "t", "h", "o", "n">>, <<"p", "y">>, <<"s", "a", "g", "e">>, <<"p", "y", "t", "h", "o", "n", "3">>, <<"p", "y", "3">> >>],
    \* "python2":      {"python2", "py2"}
    [language |-> <<"p", "y", "t", "h", "o", "n", "2">>,
     aliases |-> << <<"p", "y", "t", "h", "o", "n", "2">>, <<"p", "y", "2">> >>],
    \* "racket":       {"racket", "rkt"}
    [language |-> <<"r", "a", "c", "k", "e", "t">>,
     aliases |-> << <<"r", "a", "c", "k", "e", "t">>, <<"r", "k", "t">> >>],
    \* "raku":         {"perl6", "pl6", "raku"}
    [language |-> <<"r", "a", "k", "u">>,
     aliases |-> << <<"p", "e", "r", "l", "6">>, <<"p", "l", "6">>, <<"r", "a", "k", "u">> >>],
    \* "retina":       {}
    [language |-> <<"r", "e", "t", "i", "n", "a">>,
     aliases |-> <<  >>],
    \* "rockstar":     {}
    [language |-> <<"r", "o", "c", "k", "s", "t", "a", "r">>,
     aliases |-> <<  >>],
    \* "rscript":      {"rd"}
    [language |-> <<"r", "s", "c", "r", "i", "p", "t">>,
     aliases |-> << <<"r", "d">> >>],
    \* "ruby":         {"ruby", "rb", "duby"}
    [language |-> <<"r", "u", "b", "y">>,
     aliases |-> << <<"r", "u", "b", "y">>, <<"r", "b">>, <<"d", "u", "b", "y">> >>],
    \* "rust":         {"rust", "rs"}
    [language |-> <<"r", "u", "s", "t">>,
     aliases |-> << <<"r", "u", "s", "t">>, <<"r", "s">> >>],
    \* "scala":        {"scala"}
    [language |-> <<"s", "c", "a", "l", "a">>,
     aliases |-> << <<"s", "c", "a", "l", "a">> >>],
    \* "sqlite3":      {"sql"}
    [language |-> <<"s", "q", "l", "i", "t", "e", "3">>,
     aliases |-> << <<"s", "q", "l">> >>],
    \* "swift":        {"swift"}
    [language |-> <<"s", "w", "i", "f", "t">>,
     aliases |-> << <<"s", "w", "i", "f", "t">> >>],
    \* "typescript":   {"typescript", "ts"}
    [language |-> <<"t", "y", "p", "e", "s", "c", "r", "i", "p", "t">>,
     aliases |-> << <<"t", "y", "p", "e", "s", "c", "r", "i", "p", "t">>, <<"t", "s">> >>],
    \* "basic":        {"basic"}
    [language |-> <<"b", "a", "s", "i", "c">>,
     aliases |-> << <<"b", "a", "s", "i", "c">> >>],
    \* "basic.net":    {}
    [language |-> <<"b", "a", "s", "i", "c", ".", "n", "e", "t">>,
     aliases |-> <<  >>],
    \* "vlang":        {}
    [language |-> <<"v", "l", "a", "n", "g">>,
     aliases |-> <<  >>],
    \* "vyxal":        {}
    [language |-> <<"v", "y", "x", "a", "l">>,
     aliases |-> <<  >>],
    \* "yeethon":      {}
    [language |-> <<"y", "e", "e", "t", "h", "o", "n">>,
     aliases |-> <<  >>],
    \* "zig":          {"zig"}
    [language |-> <<"z", "i", "g">>,
     aliases |-> << <<"z", "i", "g">> >>]
  >>

----------------------------------------------------------------------------
(* getLanguageAndCodeFromMessage *)

\* bot.go 537-551: the range over languageMappings, visiting the keys in
\* `order`, then the fall-through return.  Called on accepted messages
\* only, for which c[0][3:] and c[1:len(c)-1] are in range.
RECURSIVE langLoop(_, _, _, _)
langLoop(c, mappings, order, n) ==
    IF n > Len(order)
    THEN [lang |-> <<>>, code |-> JoinNL(Slice(c, 1, Len(c) - 1))]
    ELSE LET i == order[n]
             j == mappings[i]
             test == Slice(c[1], 3, Len(c[1]))
             code == JoinNL(Slice(c, 1, Len(c) - 1))
         IN IF EqualFold(test, i) THEN [lang |-> i, code |-> code]
            ELSE IF \E k \in 1..Len(j) : EqualFold(j[k], test)
                 THEN [lang |-> i, code |-> code]
                 ELSE langLoop(c, mappings, order, n + 1)

\* Mutant: an unresolved tag loses the code as well (as part_000 does).
getLanguageAndCodeDropsCode(text, mappings, order) ==
    LET r == langLoop(ContentLines(text), mappings, order, 1)
    IN IF r.lang = <<>> THEN [lang |-> <<>>, code |-> <<>>] ELSE r

\* bot.go 532-552
getLanguageAndCodeFromMessage(text, mappings, order) ==
    langLoop(ContentLines(text), mappings, order, 1)

\* part_000 546-554: the range over the static map `languages`, visiting
\* its entries in the order `entries`; only aliases are compared.
RECURSIVE langLoop_part000(_, _, _)
langLoop_part000(c, entries, n) ==
    IF n > Len(entries) THEN [lang |-> <<>>, code |-> <<>>]
    ELSE LET i == entries[n].language
             j == entries[n].aliases
         IN IF \E k \in 1..Len(j) : EqualFold(j[k], Slice(c[1], 3, Len(c[1])))
            THEN [lang |-> i, code |-> JoinNL(Slice(c, 1, Len(c) - 1))]
            ELSE langLoop_part000(c, entries, n + 1)

\* part_000 543-555
getLanguageAndCodeFromMessage_part000(text, entries) ==
    langLoop_part000(ContentLines(text), entries, 1)

----------------------------------------------------------------------------
(* cropMessage (part_000 245-262) *)

MSG_CHAR_LIM == 500

\* The length of "(cropped " plus " characters)\n", part_000 237-238 and 253.
AnnotationLen == 22

\* int(math.Log10(float64(n))) for n >= 1: the float logarithm truncated
\* towards zero.  For every count the modelled lengths produce (22 to a
\* few hundred) the rounding error of math.Log10 is below the distance of
\* log10(n) from the next integer, and at 100 the float result is exactly
\* 2, so the truncation is the integer logarithm.
RECURSIVE IntLog10(_)
IntLog10(n) == IF n < 10 THEN 0 ELSE 1 + IntLog10(n \div 10)

\* part_000 253-255: the cut index before the separator refinement.
RawEnd(len, buf) ==
    LET end == MSG_CHAR_LIM - buf - AnnotationLen
        cropped == len - end
    IN end - (IntLog10(cropped) + 1)

\* Whether the byte index n of s is in range (otherwise Go panics).
IndexOK(s, n) == 0 <= n /\ n < Len(s)

\* Mutant: the first test reads the two bytes next to the cut, end-2 and
\* end-1, instead of end-3 and end-2.
RefinedEndAdjacent(s, end) ==
    IF s[end - 2 + 1] # "/" /\ s[end - 1 + 1] = "/" THEN end - 2
    ELSE IF s[end - 1 + 1] = "/" THEN end - 1
    ELSE end

\* part_000 256-260: the cut index after the refinement, reading the
\* bytes at end-2, end-3 and end-1 in the order the conditions do.
RefinedEnd(s, end) ==
    IF s[end - 2 + 1] = "/" /\ s[end - 3 + 1] # "/" THEN end - 2
    ELSE IF s[end - 1 + 1] = "/" THEN end - 1
    ELSE end

\* Whether lines 256-261 index or slice out of range for this cut index.
RefinePanics(s, end) ==
    \/ ~IndexOK(s, end - 2)
    \/ s[end - 2 + 1] = "/" /\ ~IndexOK(s, end - 3)
    \/ /\ ~(s[end - 2 + 1] = "/" /\ s[end - 3 + 1] # "/")
       /\ ~IndexOK(s, end - 1)
    \/ ~SliceOK(s, 0, RefinedEnd(s, end))

\* Mutant: the count is the estimate of line 254, not recalculated from
\* the final cut index.
cropMessageStaleCount(s, buf) ==
    IF Len(s) + buf < MSG_CHAR_LIM
    THEN [panicked |-> FALSE, text |-> s, cropped |-> 0]
    ELSE LET end == RefinedEnd(s, RawEnd(Len(s), buf))
         IN [panicked |-> FALSE, text |-> Slice(s, 0, end),
             cropped |-> Len(s) - (MSG_CHAR_LIM - buf - AnnotationLen)]

cropMessage(s, buf) ==
    IF Len(s) + buf < MSG_CHAR_LIM
    THEN [panicked |-> FALSE, text |-> s, cropped |-> 0]
    ELSE LET raw == RawEnd(Len(s), buf) IN
         IF RefinePanics(s, raw)
         THEN [panicked |-> TRUE, text |-> <<>>, cropped |-> 0]
         ELSE LET end == RefinedEnd(s, raw)
              IN [panicked |-> FALSE, text |-> Slice(s, 0, end),
                  cropped |-> Len(s) - end]

\* part_000 233-234: len(template) + 3 - 5 with the 28-byte template
\* "Received Output:\n```\n%s\n```\n".
TemplateLen == 28
MessageCreateBuffer == TemplateLen + 3 - 5

----------------------------------------------------------------------------
(* The command handlers *)

\* One call of the handler to the outside, or one line of the error log.
\*   kind: "respond"  s.InteractionRespond (deferred response)
\*         "history"  s.ChannelMessages
\*         "followup" s.FollowupMessageCreate; `what` names the content
\*         "send"     session.ChannelMessageSend (messageCreate)
\*         "exec"     Exec(lang, code); text is the code, and the event
\*                    also holds the err and the output Exec returned
\*         "log"      log.Error()
\*         "panic"    the handler's goroutine panicked
\*   ok: whether the call returned a nil error.
Event(kind, what, lang, text, ok) ==
    [kind |-> kind, what |-> what, lang |-> lang, text |-> text, ok |-> ok]

LogError(what) == Event("log", what, <<>>, <<>>, TRUE)

\* s.FollowupMessageCreate(...) and the log.Error that follows a failure
\* (bot.go 229-237 and every other follow-up of the handlers).
Followup(what, text, ok) ==
    IF ok THEN <<Event("followup", what, <<>>, text, TRUE)>>
    ELSE <<Event("followup", what, <<>>, text, FALSE),
           LogError("Error sending followup message.")>>

\* Mutant: the loop ends at the first follow-up that fails.
RECURSIVE SendFragmentsUntilError(_, _, _)
SendFragmentsUntilError(fragments, sendOK, k) ==
    IF fragments = <<>> THEN <<>>
    ELSE Followup("fragment", fragments[1], sendOK[k])
             \o IF sendOK[k]
                THEN SendFragmentsUntilError(Tail(fragments), sendOK, k + 1)
                ELSE <<>>

\* bot.go 288-298 and 427-437: one follow-up per fragment, in order; the
\* k-th follow-up of the handler succeeds iff sendOK[k].
RECURSIVE SendFragments(_, _, _)
SendFragments(fragments, sendOK, k) ==
    IF fragments = <<>> THEN <<>>
    ELSE Followup("fragment", fragments[1], sendOK[k])
             \o SendFragments(Tail(fragments), sendOK, k + 1)

\* fmt.Sprintf("Error executing code.```\n%v\n```", err), bot.go 275 and 414;
\* the sentence before the fence is one token.
ExecErrorText(err) ==
    <<"Error executing code.">> \o Fence \o <<NL>> \o err \o <<NL>> \o Fence

\* fmt.Sprintf("Error executing code: `%v`", err), part_000 508.
ExecErrorText_part000(err) ==
    <<"Error executing code: ">> \o <<BT>> \o err \o <<BT>>

\* output, err := Exec(lang, "", code), bot.go 267 and 406: the call with
\* its arguments and what it returned.
ExecCall(lang, code, exec) ==
    [kind |-> "exec", what |-> "Exec", lang |-> lang, text |-> code,
     ok |-> ~exec.failed, err |-> exec.err, output |-> exec.output]

\* Mutant: Exec is called a second time when the first call failed.
ExecAndReplyRetry(lang, code, exec, sendOK) ==
    <<ExecCall(lang, code, exec)>> \o
    IF exec.failed
    THEN <<LogError("Error executing code."), ExecCall(lang, code, exec)>>
             \o Followup("execError", ExecErrorText(exec.err), sendOK[1])
    ELSE SendFragments(splitOutput(exec.output, ChunkLimit), sendOK, 1)

\* bot.go 266-298 and 405-437: Exec, then the error follow-up or the
\* fragments.
ExecAndReply(lang, code, exec, sendOK) ==
    <<ExecCall(lang, code, exec)>> \o
    IF exec.failed
    THEN <<LogError("Error executing code.")>>
             \o Followup("execError", ExecErrorText(exec.err), sendOK[1])
    ELSE SendFragments(splitOutput(exec.output, ChunkLimit), sendOK, 1)

\* part_000 500-530: the same, with an unconditional log.Error after Exec.
ExecAndReply_part000(lang, code, exec, sendOK) ==
    <<ExecCall(lang, code, exec),
      LogError("Error executing code.")>> \o
    IF exec.failed
    THEN Followup("execError", ExecErrorText_part000(exec.err), sendOK[1])
    ELSE SendFragments(splitOutput(exec.output, ChunkLimit), sendOK, 1)

\* commandsHandlers["Run Code"], bot.go 207-299.
RunCodeHandler(msg, mappings, order, respondOK, exec, sendOK) ==
    <<Event("respond", "deferred", <<>>, <<>>, respondOK)>> \o
    IF ~respondOK THEN <<LogError("Error responding to interaction.")>>
    ELSE IF isCodeMessage(msg).panicked
    THEN <<Event("panic", "slice bounds out of range", <<>>, <<>>, FALSE)>>
    ELSE IF ~isCodeMessage(msg).value
    THEN Followup("notCode", <<>>, sendOK[1])
    ELSE LET r == getLanguageAndCodeFromMessage(msg, mappings, order) IN
         IF r.lang = <<>> THEN Followup("noLanguage", <<>>, sendOK[1])
         ELSE ExecAndReply(r.lang, r.code, exec, sendOK)

\* commandsHandlers["Run Code"], part_000 443-531.
RunCodeHandler_part000(msg, entries, respondOK, exec, sendOK) ==
    <<Event("respond", "deferred", <<>>, <<>>, respondOK)>> \o
    IF ~respondOK THEN <<LogError("Error responding to interaction.")>>
    ELSE IF isCodeMessage(msg).panicked
    THEN <<Event("panic", "slice bounds out of range", <<>>, <<>>, FALSE)>>
    ELSE IF ~isCodeMessage(msg).value
    THEN Followup("notCode", <<>>, sendOK[1])
    ELSE LET r == getLanguageAndCodeFromMessage_part000(msg, entries) IN
         IF r.lang = <<>> THEN Followup("noLanguage", <<>>, sendOK[1])
         ELSE ExecAndReply_part000(r.lang, r.code, exec, sendOK)

\* Mutant: every string is taken to be in the slice.
stringInSliceAny(str, a) == Len(a) >= 0

\* bot.go 573-580
stringInSlice(str, a) == \E n \in 1..Len(a) : a[n] = str

\* bot.go 337-344: the index of the first message of the history that
\* isCodeMessage accepts, 0 when there is none, -1 when isCodeMessage
\* panics on a message before any is accepted.
RECURSIVE FirstCodeMessage(_, _)
FirstCodeMessage(history, n) ==
    IF n > Len(history) THEN 0
    ELSE IF isCodeMessage(history[n]).panicked THEN -1
    ELSE IF isCodeMessage(history[n]).value THEN n
    ELSE FirstCodeMessage(history, n + 1)

\* bot.go 337-344: the handler's local `message` after the loop; the zero
\* Message has empty Content.
SelectedMessage(history) ==
    IF FirstCodeMessage(history, 1) > 0
    THEN history[FirstCodeMessage(history, 1)] ELSE <<>>

\* commandsHandlers["run"], bot.go 300-438.  option.given tells whether
\* the language option was passed.
RunHandler(history, historyOK, option, names, mappings, order, respondOK, exec, sendOK) ==
    <<Event("respond", "deferred", <<>>, <<>>, respondOK)>> \o
    IF ~respondOK THEN <<LogError("Error responding to interaction.")>>
    ELSE <<Event("history", "ChannelMessages", <<>>, <<>>, historyOK)>> \o
    IF ~historyOK
    THEN <<LogError("Error getting messages in channel.")>>
             \o Followup("historyError", <<>>, sendOK[1])
    ELSE IF FirstCodeMessage(history, 1) = -1
    THEN <<Event("panic", "slice bounds out of range", <<>>, <<>>, FALSE)>>
    ELSE IF SelectedMessage(history) = <<>>
    THEN Followup("noCodeMessage", <<>>, sendOK[1])
    ELSE LET r == getLanguageAndCodeFromMessage(
                      SelectedMessage(history), mappings, order)
             lang == IF option.given THEN option.value ELSE r.lang
         IN IF option.given /\ ~stringInSlice(lang, names)
            THEN Followup("unsupported", lang, sendOK[1])
            ELSE IF lang = <<>> THEN Followup("noLanguage", <<>>, sendOK[1])
            ELSE ExecAndReply(lang, r.code, exec, sendOK)

----------------------------------------------------------------------------
(* messageCreate and sendMessage (part_000 164-272) *)

\* part_000 80-158
allowedLanguages ==
    << <<"a", "w", "k">>,
       <<"b", "a", "s", "h">>,
       <<"b", "e", "f", "u", "n", "g", "e", "9", "3">>,
       <<"b", "r", "a", "i", "n", "f", "u", "c", "k">>,
       <<"c">>,
       <<"c", "+", "+">>,
       <<"c", "j", "a", "m">>,
       <<"c", "l", "o", "j", "u", "r", "e">>,
       <<"c", "o", "b", "o", "l">>,
       <<"c", "o", "f", "f", "e", "e", "s", "c", "r", "i", "p", "t">>,
       <<"c", "o", "w">>,
       <<"c", "r", "y", "s", "t", "a", "l">>,
       <<"c", "s", "h", "a", "r", "p">>,
       <<"c", "s", "h", "a", "r", "p", ".", "n", "e", "t">>,
       <<"d">>,
       <<"d", "a", "r", "t">>,
       <<"d", "a", "s", "h">>,
       <<"d", "r", "a", "g", "o", "n">>,
       <<"e", "l", "i", "x", "i", "r">>,
       <<"e", "m", "a", "c", "s">>,
       <<"e", "r", "l", "a", "n", "g">>,
       <<"f", "i", "l", "e">>,
       <<"f", "o", "r", "t", "e">>,
       <<"f", "o", "r", "t", "r", "a", "n">>,
       <<"f", "r", "e", "e", "b", "a", "s", "i", "c">>,
       <<"f", "s", "h", "a", "r", "p", ".", "n", "e", "t">>,
       <<"f", "s", "i">>,
       <<"g", "o">>,
       <<"g", "o", "l", "f", "s", "c", "r", "i", "p", "t">>,
       <<"g", "r", "o", "o", "v", "y">>,
       <<"h", "a", "s", "k", "e", "l", "l">>,
       <<"h", "u", "s", "k">>,
       <<"i", "v", "e", "r", "i", "l", "o", "g">>,
       <<"j", "a", "p", "t">>,
       <<"j", "a", "v", "a">>,
       <<"j", "a", "v", "a", "s", "c", "r", "i", "p", "t">>,
       <<"j", "e", "l", "l", "y">>,
       <<"j", "u", "l", "i", "a">>,
       <<"k", "o", "t", "l", "i", "n">>,
       <<"l", "i", "s", "p">>,
       <<"l", "l", "v", "m", "_", "i", "r">>,
       <<"l", "o", "l", "c", "o", "d", "e">>,
       <<"l", "u", "a">>,
       <<"n", "a", "s", "m">>,
       <<"n", "a", "s", "m", "6", "4">>,
       <<"n", "i", "m">>,
       <<"o", "c", "a", "m", "l">>,
       <<"o", "c", "t", "a", "v", "e">>,
       <<"o", "s", "a", "b", "i", "e">>,
       <<"p", "a", "r", "a", "d", "o", "c">>,
       <<"p", "a", "s", "c", "a", "l">>,
       <<"p", "e", "r", "l">>,
       <<"p", "h", "p">>,
       <<"p", "o", "n", "y", "l", "a", "n", "g">>,
       <<"p", "o", "w", "e", "r", "s", "h", "e", "l", "l">>,
       <<"p", "r", "o", "l", "o", "g">>,
       <<"p", "u", "r", "e">>,
       <<"p", "y", "t", "h">>,
       <<"p", "y", "t", "h", "o", "n">>,
       <<"p", "y", "t", "h", "o", "n", "2">>,
       <<"r", "a", "c", "k", "e", "t">>,
       <<"r", "a", "k", "u">>,
       <<"r", "e", "t", "i", "n", "a">>,
       <<"r", "o", "c", "k", "s", "t", "a", "r">>,
       <<"r", "s", "c", "r", "i", "p", "t">>,
       <<"r", "u", "b", "y">>,
       <<"r", "u", "s", "t">>,
       <<"s", "c", "a", "l", "a">>,
       <<"s", "q", "l", "i", "t", "e", "3">>,
       <<"s", "w", "i", "f", "t">>,
       <<"t", "y", "p", "e", "s", "c", "r", "i", "p", "t">>,
       <<"b", "a", "s", "i", "c">>,
       <<"b", "a", "s", "i", "c", ".", "n", "e", "t">>,
       <<"v", "l", "a", "n", "g">>,
       <<"v", "y", "x", "a", "l">>,
       <<"y", "e", "e", "t", "h", "o", "n">>,
       <<"z", "i", "g">> >>

\* The characters strings.TrimSpace removes, as far as messages hold them.
IsSpace(ch) == ch \in {" ", "\t", CR, NL}

\* strings.TrimSpace
RECURSIVE TrimSpace(_)
TrimSpace(s) ==
    IF s = <<>> THEN <<>>
    ELSE IF IsSpace(s[1]) THEN TrimSpace(Tail(s))
    ELSE IF IsSpace(s[Len(s)]) THEN TrimSpace(SubSeq(s, 1, Len(s) - 1))
    ELSE s

\* regexp.MustCompile(" +").Split(s, -1): the pieces of s between maximal
\* runs of spaces; `field` is the piece being read, `inRun` whether the
\* previous character was a space.
RECURSIVE SplitSpaces(_, _, _)
SplitSpaces(s, field, inRun) ==
    IF s = <<>> THEN <<field>>
    ELSE IF s[1] = " "
         THEN IF inRun THEN SplitSpaces(Tail(s), field, TRUE)
              ELSE <<field>> \o SplitSpaces(Tail(s), <<>>, TRUE)
    ELSE SplitSpaces(Tail(s), Append(field, s[1]), FALSE)

\* strings.ToLower on ASCII text.
ToLower(s) == [n \in 1..Len(s) |-> FoldChar(s[n])]

DigitChars == <<"0", "1", "2", "3", "4", "5", "6", "7", "8", "9">>

\* What "%d" prints for n >= 0.
RECURSIVE Decimal(_)
Decimal(n) ==
    IF n < 10 THEN <<DigitChars[n + 1]>>
    ELSE Decimal(n \div 10) \o <<DigitChars[(n % 10) + 1]>>

\* part_000 264-272: session.ChannelMessageSend; on an error, the log
\* line and one more ChannelMessageSend, whose result is dropped.  The
\* first send succeeds iff sendOK[1], the fallback iff sendOK[2].
sendMessage(what, text, sendOK) ==
    IF sendOK[1] THEN <<Event("send", what, <<>>, text, TRUE)>>
    ELSE <<Event("send", what, <<>>, text, FALSE),
           LogError("Received error while sending message"),
           Event("send", "fallback", <<>>,
                 <<"Experienced error sending message...">>, sendOK[2])>>

\* part_000 207-216: code += process[i] + "\n" for the lines between the
\* first and the last of process.
RECURSIVE CodeOfLines(_)
CodeOfLines(body) ==
    IF body = <<>> THEN <<>>
    ELSE body[1] \o <<NL>> \o CodeOfLines(Tail(body))

\* part_000 233-240: the template filled with the cropped output, and the
\* annotation when something was cropped.
Response(text, cropped) ==
    <<"Received Output:", NL>> \o Fenced(text) \o <<NL>> \o
    IF cropped > 0
    THEN <<"(cropped ">> \o Decimal(cropped) \o <<" characters)", NL>>
    ELSE <<>>

\* part_000 225-242: Exec, then the error or the cropped output.
ExecAndSend(lang, code, exec, sendOK) ==
    <<ExecCall(lang, code, exec)>> \o
    IF exec.failed
    THEN sendMessage("execError", <<"Encountered Error: ">> \o exec.err,
                     sendOK)
    ELSE LET c == cropMessage(exec.output, MessageCreateBuffer) IN
         IF c.panicked
         THEN <<Event("panic", "index out of range", <<>>, <<>>, FALSE)>>
         ELSE sendMessage("output", Response(c.text, c.cropped), sendOK)

\* messageCreate, part_000 164-243.  fromSelf is m.Author.ID ==
\* s.State.User.ID.
messageCreate(text, fromSelf, exec, sendOK) ==
    IF fromSelf THEN <<>>
    ELSE LET lines == SplitNL(text)
             split == SplitSpaces(TrimSpace(lines[1]), <<>>, FALSE)
             cmd == split[1]
             args == Tail(split)
             lang == ToLower(args[1])
             process == Tail(lines)
         IN IF cmd # <<"!", "r", "u", "n">> THEN <<>>
            ELSE IF Len(args) = 0 THEN <<>>
            ELSE IF ~\E n \in 1..Len(allowedLanguages) :
                        EqualFold(allowedLanguages[n], lang)
            THEN sendMessage("unsupported", lang, sendOK)
            ELSE IF Len(lines) > 3
            THEN IF ~(process[1] = Fence /\ process[Len(process)] = Fence)
                 THEN sendMessage("notCode", <<>>, sendOK)
                 ELSE ExecAndSend(
                          lang,
                          CodeOfLines(SubSeq(process, 2, Len(process) - 1)),
                          exec, sendOK)
            ELSE IF Len(lines) = 3 THEN sendMessage("noCode", <<>>, sendOK)
            ELSE sendMessage("tooFewLines", <<>>, sendOK)

----------------------------------------------------------------------------
(* Inputs *)

S_py == <<"p", "y">>
S_PY == <<"P", "Y">>
S_py3 == <<"p", "y", "3">>
S_python == <<"p", "y", "t", "h", "o", "n">>
S_basic == <<"b", "a", "s", "i", "c">>
S_Basic == <<"B", "a", "s", "i", "c">>
S_freebasic == <<"f", "r", "e", "e", "b", "a", "s", "i", "c">>
S_go == <<"g", "o">>
S_golang == <<"g", "o", "l", "a", "n", "g">>
S_js == <<"j", "s">>

\* Runtime catalogs GetRuntimes() may deliver to init() of bot.go.
Catalogs ==
    { <<>>,
      << [language |-> S_python, aliases |-> <<S_py, S_py3>>],
         [language |-> S_go, aliases |-> <<S_golang>>] >>,
      << [language |-> S_basic, aliases |-> <<>>],
         [language |-> S_freebasic, aliases |-> <<S_basic>>],
         [language |-> S_python, aliases |-> <<S_py, S_py3>>] >> }

\* The two builds of the resolver.
Builds == {"bot.go", "part_000"}

Tags == {<<>>, S_py, S_PY, S_python, S_basic, S_Basic, S_go, S_js}

FirstLines ==
    {Fence \o t : t \in Tags}
        \cup {<<>>, <<BT>>, <<BT, BT>>, <<"x", BT, BT, BT>>}
BodyLines == {<<"x">>, <<>>}
LastLines == {Fence, Fence \o <<" ">>, <<BT, BT>>, <<>>}
Terminators == {<<NL>>, <<CR, NL>>}

\* Largest number of lines between the first and the last line.
MaxBody == 2

\* lines[1] seps[1] lines[2] ... seps[n-1] lines[n]
RECURSIVE Assemble(_, _)
Assemble(lines, seps) ==
    IF Len(lines) = 1 THEN lines[1]
    ELSE lines[1] \o seps[1] \o Assemble(Tail(lines), Tail(seps))

Contents ==
    FirstLines \cup
    UNION { UNION { { Assemble(<<first>> \o body \o <<last>>, seps) :
                        seps \in [1..(n + 1) -> Terminators] } :
                    first \in FirstLines, last \in LastLines,
                    body \in [1..n -> BodyLines] } :
            n \in 0..MaxBody }

OutChars == <<"a", "b", "c", "d", "e">>
Periodic(n, p) == [k \in 1..n |-> OutChars[((k - 1) % p) + 1]]

MaxLimit == 12
MaxOutLen == 30
MaxPeriod == 3

SplitInputs ==
    { <<Periodic(n, p), l>> :
        n \in 0..MaxOutLen, p \in 1..MaxPeriod, l \in (Overhead + 1)..MaxLimit }
    \cup { <<Periodic(n, 1), ChunkLimit>> : n \in {492, 493, 500, 501, 1200} }

\* Outputs handed to cropMessage: every text of period 3 over a letter
\* and the slash, so that each arrangement of the three bytes before the
\* cut occurs, in lengths around the limit.
MaxUnder == 30
MaxOver == 60
CropLens == (MSG_CHAR_LIM - MaxUnder)..(MSG_CHAR_LIM + MaxOver)
CropTexts(n) ==
    { [k \in 1..n |-> w[((k - 1) % 3) + 1]] : w \in [1..3 -> {"A", "/"}] }

\* The buffer messageCreate passes, and the template overhead of the
\* cropping scenario of the specification.
Buffers == {MessageCreateBuffer, 5}

\* Messages the handlers are run on: not fenced, too short a first
\* line, fenced without a body, with a body, with and without a tag.
HandlerContents ==
    { <<"x">>,
      <<BT, BT, NL>> \o Fence,
      Fence \o <<NL>> \o Fence,
      Fence \o S_py \o <<NL>> \o Fence,
      Fence \o S_py \o <<NL, "x", NL>> \o Fence,
      Fence \o S_Basic \o <<CR, NL, "x", CR, NL>> \o Fence,
      Fence \o S_js \o <<NL, "x", NL>> \o Fence,
      Fence \o <<NL, "x", NL, NL>> \o Fence }

\* Messages found in a channel history.
HistoryContents ==
    { <<"x">>,
      <<BT, BT, NL>> \o Fence,
      Fence \o S_py \o <<NL>> \o Fence,
      Fence \o S_Basic \o <<CR, NL, "x", CR, NL>> \o Fence }

\* Longest channel history modelled (the handler asks for 10 messages).
MaxHistory == 2
Histories == UNION { [1..n -> HistoryContents] : n \in 0..MaxHistory }

NoOption == [given |-> FALSE, value |-> <<>>]
Options ==
    {NoOption} \cup { [given |-> TRUE, value |-> v] : v \in {S_python, S_js} }

\* Most chunks an output of Exec is split into.
MaxChunks == 3

\* What Exec may return: an error, or an output of 1 to MaxChunks chunks.
ExecResults ==
    { [failed |-> TRUE, err |-> <<"e", "r", "r">>, output |-> <<>>] } \cup
    { [failed |-> FALSE, err |-> <<>>, output |-> Periodic(n, 2)] :
        n \in {0, 3} \cup { k * ChunkLimit + 1 : k \in 1..(MaxChunks - 1) } }

\* Whether each follow-up of one handler run succeeds, in order.
SendOutcomes == [1..MaxChunks -> BOOLEAN]

S_run == <<"!", "r", "u", "n">>

\* Channel messages messageCreate receives: no command, a command without
\* arguments, an unsupported language, code outside a block, a block
\* without lines, too few lines, and code to run, with more than one
\* space, capitals and a carriage return in the command line.
MessageContents ==
    { <<"h", "i">>,
      S_run,
      S_run \o <<" ">> \o S_js \o <<NL>> \o Fence \o <<NL, "x", NL>> \o Fence,
      S_run \o <<" ">> \o S_go \o <<NL, "x", NL, "y", NL, "z">>,
      S_run \o <<" ">> \o S_go \o <<NL>> \o Fence \o <<NL>> \o Fence,
      S_run \o <<" ">> \o S_go \o <<NL>> \o Fence,
      S_run \o <<" ">> \o S_go \o <<NL>> \o Fence \o <<NL, "x", NL>> \o Fence,
      <<" ">> \o S_run \o <<" ", " ", "G", "o", " ", "-", "v", CR, NL>>
          \o Fence \o <<NL, "x", NL, "y", NL>> \o Fence }

----------------------------------------------------------------------------
(* Specification of splitOutput as a function of its arguments *)

MsgIdle ==
    /\ content = <<>>
    /\ languages = <<>>
    /\ languageMappings = <<>>
    /\ isCode = [panicked |-> FALSE, value |-> FALSE]
    /\ parsed = [lang |-> <<>>, code |-> <<>>]

BotIdle ==
    /\ interaction = [command |-> "", history |-> <<>>, option |-> NoOption]
    /\ message = <<>>
    /\ events = <<>>

CropIdle ==
    /\ toCrop = <<>>
    /\ buffer = 0
    /\ cropResult = [panicked |-> FALSE, text |-> <<>>, cropped |-> 0]

SplitIdle ==
    /\ output = <<>>
    /\ limit = 0
    /\ messages = <<>>

InitSplit ==
    /\ pc = "split.start"
    /\ build = "bot.go"
    /\ \E inp \in SplitInputs : output = inp[1] /\ limit = inp[2]
    /\ messages = <<>>
    /\ MsgIdle
    /\ CropIdle
    /\ BotIdle

SplitOutput ==
    /\ pc = "split.start"
    /\ messages' = splitOutput(output, limit)
    /\ pc' = "split.done"
    /\ UNCHANGED <<build, output, limit, msgVars, cropVars, botVars>>

NextSplit == SplitOutput

SpecSplit == InitSplit /\ [][NextSplit]_vars

----------------------------------------------------------------------------
(* Specification of the parser and the resolvers *)

InitMsg ==
    /\ pc = "msg.start"
    /\ build \in Builds
    /\ content \in Contents
    /\ \E runtimes \in Catalogs :
          /\ build = "part_000" => runtimes = <<>>
          /\ languages = LanguagesOf(runtimes)
          /\ languageMappings = LanguageMappingsOf(runtimes)
    /\ isCode = [panicked |-> FALSE, value |-> FALSE]
    /\ parsed = [lang |-> <<>>, code |-> <<>>]
    /\ SplitIdle
    /\ CropIdle
    /\ BotIdle

\* isCodeMessage(message), which both builds call first.
IsCodeMessage ==
    /\ pc = "msg.start"
    /\ isCode' = isCodeMessage(content)
    /\ pc' = "msg.classified"
    /\ UNCHANGED <<build, content, languages, languageMappings, parsed, splitVars, cropVars, botVars>>

\* bot.go: getLanguageAndCodeFromMessage(message) on an accepted message.
GetLanguageAndCode ==
    /\ pc = "msg.classified" /\ build = "bot.go"
    /\ ~isCode.panicked /\ isCode.value
    /\ \E start \in Starts(KeySeq(languages)) :
          parsed' = getLanguageAndCodeFromMessage(
                        content, languageMappings,
                        Rotate(KeySeq(languages), start))
    /\ pc' = "msg.resolved"
    /\ UNCHANGED <<build, content, languages, languageMappings, isCode, splitVars, cropVars, botVars>>

\* part_000: getLanguageAndCodeFromMessage(message) on an accepted message.
GetLanguageAndCode_part000 ==
    /\ pc = "msg.classified" /\ build = "part_000"
    /\ ~isCode.panicked /\ isCode.value
    /\ \E start \in Starts(languages_part000) :
          parsed' = getLanguageAndCodeFromMessage_part000(
                        content, Rotate(languages_part000, start))
    /\ pc' = "msg.resolved"
    /\ UNCHANGED <<build, content, languages, languageMappings, isCode, splitVars, cropVars, botVars>>

NextMsg == IsCodeMessage \/ GetLanguageAndCode \/ GetLanguageAndCode_part000

SpecMsg == InitMsg /\ [][NextMsg]_vars

----------------------------------------------------------------------------
(* Specification of cropMessage as a function of its arguments *)

InitCrop ==
    /\ pc = "crop.start"
    /\ build = "part_000"
    /\ buffer \in Buffers
    /\ \E n \in CropLens : toCrop \in CropTexts(n)
    /\ cropResult = [panicked |-> FALSE, text |-> <<>>, cropped |-> 0]
    /\ SplitIdle
    /\ MsgIdle
    /\ BotIdle

CropMessage ==
    /\ pc = "crop.start"
    /\ cropResult' = cropMessage(toCrop, buffer)
    /\ pc' = "crop.done"
    /\ UNCHANGED <<build, toCrop, buffer, splitVars, msgVars, botVars>>

NextCrop == CropMessage

SpecCrop == InitCrop /\ [][NextCrop]_vars

----------------------------------------------------------------------------
(* Specification of the bot: one interaction, handled by one handler *)

Init ==
    /\ pc = "bot.ready"
    /\ build \in Builds
    /\ \E runtimes \in Catalogs :
          /\ build = "part_000" => runtimes = <<>>
          /\ languages = LanguagesOf(runtimes)
          /\ languageMappings = LanguageMappingsOf(runtimes)
    /\ content = <<>>
    /\ isCode = [panicked |-> FALSE, value |-> FALSE]
    /\ parsed = [lang |-> <<>>, code |-> <<>>]
    /\ SplitIdle
    /\ CropIdle
    /\ BotIdle

\* The environment of a handler run is the outcome of each call the run
\* makes.  A call that is not made has no outcome: Exec returns a result
\* only when the trace holds an Exec call, and there is one send outcome
\* per follow-up the run sends.
AllSent == [k \in 1..(MaxChunks + 1) |-> TRUE]
NoExec == [failed |-> TRUE, err |-> <<>>, output |-> <<>>]
ExecResultsFor(trace) ==
    IF \E n \in 1..Len(trace) : trace[n].kind = "exec"
    THEN ExecResults ELSE {NoExec}
SendOutcomesFor(trace) ==
    [1..Cardinality({n \in 1..Len(trace) : trace[n].kind = "followup"})
        -> BOOLEAN]

\* One outcome per ChannelMessageSend a run of messageCreate makes when
\* every send fails: the message and, after its failure, the fallback.
SendsFor(trace) ==
    IF \E n \in 1..Len(trace) : trace[n].kind = "send"
    THEN { sendOK \in [1..2 -> BOOLEAN] : sendOK[1] => sendOK[2] }
    ELSE { [k \in 1..2 |-> TRUE] }

\* bot.go: the message command "Run Code" on a target message.
RunCode ==
    /\ pc = "bot.ready" /\ build = "bot.go"
    /\ \E msg \in HandlerContents, respondOK \in BOOLEAN,
          start \in Starts(KeySeq(languages)) :
          LET order == Rotate(KeySeq(languages), start)
              run(exec, sendOK) ==
                  RunCodeHandler(msg, languageMappings, order,
                                 respondOK, exec, sendOK)
          IN \E exec \in ExecResultsFor(run(NoExec, AllSent)) :
             \E sendOK \in SendOutcomesFor(run(exec, AllSent)) :
                /\ interaction' = [command |-> "Run Code",
                                   history |-> <<>>, option |-> NoOption]
                /\ message' = IF respondOK THEN msg ELSE <<>>
                /\ events' = run(exec, sendOK)
    /\ pc' = "bot.handled"
    /\ UNCHANGED <<build, splitVars, msgVars, cropVars>>

\* part_000: the message command "Run Code" on a target message.
RunCode_part000 ==
    /\ pc = "bot.ready" /\ build = "part_000"
    /\ \E msg \in HandlerContents, respondOK \in BOOLEAN,
          start \in Starts(languages_part000) :
          LET run(exec, sendOK) ==
                  RunCodeHandler_part000(
                      msg, Rotate(languages_part000, start),
                      respondOK, exec, sendOK)
          IN \E exec \in ExecResultsFor(run(NoExec, AllSent)) :
             \E sendOK \in SendOutcomesFor(run(exec, AllSent)) :
                /\ interaction' = [command |-> "Run Code",
                                   history |-> <<>>, option |-> NoOption]
                /\ message' = IF respondOK THEN msg ELSE <<>>
                /\ events' = run(exec, sendOK)
    /\ pc' = "bot.handled"
    /\ UNCHANGED <<build, splitVars, msgVars, cropVars>>

\* bot.go: the slash command /run [language] in a channel.
Run ==
    /\ pc = "bot.ready" /\ build = "bot.go"
    /\ \E history \in Histories, historyOK \in BOOLEAN, option \in Options,
          respondOK \in BOOLEAN, start \in Starts(KeySeq(languages)) :
          LET order == Rotate(KeySeq(languages), start)
              run(exec, sendOK) ==
                  RunHandler(history, historyOK, option, languages,
                             languageMappings, order,
                             respondOK, exec, sendOK)
          IN \E exec \in ExecResultsFor(run(NoExec, AllSent)) :
             \E sendOK \in SendOutcomesFor(run(exec, AllSent)) :
                /\ interaction' = [command |-> "run", history |-> history,
                                   option |-> option]
                /\ message' = IF respondOK /\ historyOK
                                  /\ FirstCodeMessage(history, 1) > 0
                              THEN SelectedMessage(history) ELSE <<>>
                /\ events' = run(exec, sendOK)
    /\ pc' = "bot.handled"
    /\ UNCHANGED <<build, splitVars, msgVars, cropVars>>

\* part_000: a message is created in a channel the bot reads.
MessageCreate ==
    /\ pc = "bot.ready" /\ build = "part_000"
    /\ \E text \in MessageContents, fromSelf \in BOOLEAN :
          LET run(exec, sendOK) == messageCreate(text, fromSelf, exec, sendOK)
          IN \E exec \in ExecResultsFor(run(NoExec, AllSent)) :
             \E sendOK \in SendsFor(run(exec, [k \in 1..2 |-> FALSE])) :
                /\ interaction' = [command |-> "messageCreate",
                                   history |-> <<>>, option |-> NoOption]
                /\ message' = text
                /\ events' = run(exec, sendOK)
    /\ pc' = "bot.handled"
    /\ UNCHANGED <<build, splitVars, msgVars, cropVars>>

Next == RunCode \/ RunCode_part000 \/ Run \/ MessageCreate

Spec == Init /\ [][Next]_vars

----------------------------------------------------------------------------
(* Properties of splitOutput *)

\* What is left of a fragment without its leading fence and newline and
\* its trailing newline and fence.
Payload(fragment) == SubSeq(fragment, 5, Len(fragment) - 4)

RECURSIVE ConcatPayloads(_)
ConcatPayloads(fragments) ==
    IF fragments = <<>> THEN <<>>
    ELSE Payload(fragments[1]) \o ConcatPayloads(Tail(fragments))

\* C1: the payloads of the fragments of splitOutput(output, limit),
\* concatenated in order, are exactly output.
C1_RoundTrip ==
    pc = "split.done" => ConcatPayloads(messages) = output

\* C2: every fragment of splitOutput(output, limit), decoration included,
\* is at most limit characters long.
C2_FragmentsFit ==
    pc = "split.done" =>
        \A k \in 1..Len(messages) : Len(messages[k]) <= limit

\* C10: every fragment but the last carries exactly limit - 8 consecutive
\* characters of output.
C10_NonFinalPayload ==
    pc = "split.done" =>
        \A k \in 1..(Len(messages) - 1) :
            /\ Len(Payload(messages[k])) = limit - 8
            /\ \E off \in 0..Len(output) :
                  /\ off + limit - 8 <= Len(output)
                  /\ Payload(messages[k]) = Slice(output, off, off + limit - 8)

\* An output long enough for two non-final fragments has been split.
C10_Witness ==
    pc = "split.done" /\ Len(messages) >= 3

\* a / b rounded up, for b > 0.
Ceil(a, b) == (a + b - 1) \div b

\* C11 as stated: the number of fragments is ceil(len(output) / limit),
\* the empty output included.
C11_CountIsCeil ==
    pc = "split.done" => Len(messages) = Ceil(Len(output), limit)

\* C11 as amended: the number of fragments is ceil(len(output) / limit)
\* for a non-empty output, and one for the empty output.
C11_FragmentCount ==
    pc = "split.done" =>
        Len(messages) = IF output = <<>> THEN 1 ELSE Ceil(Len(output), limit)

\* An output of exactly two limits has been split.
C11_Witness ==
    pc = "split.done" /\ Len(output) = 2 * limit /\ Len(messages) = 2

----------------------------------------------------------------------------
(* Properties of the parser and the resolvers *)

\* The contract of isCodeMessage: two lines or more, the first beginning
\* with the fence, the last being the fence.
WellFormedFence(text) ==
    LET c == ContentLines(text) IN
    /\ Len(c) >= 2
    /\ Len(c[1]) >= 3
    /\ SubSeq(c[1], 1, 3) = Fence
    /\ c[Len(c)] = Fence

\* What follows the opening fence on the first line.
TagOf(text) ==
    LET c == ContentLines(text) IN SubSeq(c[1], 4, Len(c[1]))

Classified == pc \in {"msg.classified", "msg.resolved"}

\* C3: isCodeMessage returns true exactly on well-formed fenced content,
\* false on every other content, and never panics.
C3_IsCodeMessageTotal ==
    Classified =>
        /\ ~isCode.panicked
        /\ isCode.value <=> WellFormedFence(content)

\* C4: a tag that case-insensitively equals a canonical name resolves to
\* that name, whatever aliases other entries list and whatever the
\* iteration order.
C4_CanonicalWins ==
    (pc = "msg.resolved" /\ build = "bot.go") =>
        \A name \in DOMAIN languageMappings :
            EqualFold(TagOf(content), name) => parsed.lang = name

\* C5: a tag that case-insensitively equals an alias of an entry resolves
\* to that entry's canonical name, in both builds and whatever the
\* iteration order.
C5_AliasResolves ==
    /\ (pc = "msg.resolved" /\ build = "bot.go") =>
          \A name \in DOMAIN languageMappings :
              \A k \in 1..Len(languageMappings[name]) :
                  EqualFold(languageMappings[name][k], TagOf(content))
                      => parsed.lang = name
    /\ (pc = "msg.resolved" /\ build = "part_000") =>
          \A n \in 1..Len(languages_part000) :
              \A k \in 1..Len(languages_part000[n].aliases) :
                  EqualFold(languages_part000[n].aliases[k], TagOf(content))
                      => parsed.lang = languages_part000[n].language

\* C6: on an accepted message bot.go returns as code the lines strictly
\* between the first and the last, joined by LF, whether or not the tag
\* resolves: the normalised content is first line, LF, code, LF, last
\* line; with no line in between the code is empty.
C6_CodeIsBody ==
    (pc = "msg.resolved" /\ build = "bot.go") =>
        LET c == ContentLines(content) IN
        IF Len(c) = 2 THEN parsed.code = <<>>
        ELSE c[1] \o <<NL>> \o parsed.code \o <<NL>> \o c[Len(c)]
                 = ReplaceCRLF(content)

\* An accepted message with two body lines and a tag that no entry of a
\* non-empty registry matches has been resolved.
C6_Witness ==
    /\ pc = "msg.resolved" /\ build = "bot.go"
    /\ languages # <<>>
    /\ parsed.lang = <<>>
    /\ Len(ContentLines(content)) = 4
    /\ parsed.code # <<>>

----------------------------------------------------------------------------
(* Properties of cropMessage *)

\* The number of decimal digits of n >= 0, as "%d" prints it.
RECURSIVE DecimalDigits(_)
DecimalDigits(n) == IF n < 10 THEN 1 ELSE 1 + DecimalDigits(n \div 10)

MustCrop == Len(toCrop) + buffer >= MSG_CHAR_LIM

\* C8: when the output must be cropped, the returned prefix, the template
\* overhead and the annotation "(cropped N characters)\n" fit within
\* MSG_CHAR_LIM.
C8_CroppedFits ==
    (pc = "crop.done" /\ MustCrop) =>
        Len(cropResult.text) + buffer + 22 + DecimalDigits(cropResult.cropped)
            <= MSG_CHAR_LIM

\* C9: when the output must be cropped, cropMessage returns a prefix of
\* the output that is strictly shorter than it, and a positive count equal
\* to the length of the output minus the length of that prefix.
C9_CropCount ==
    (pc = "crop.done" /\ MustCrop) =>
        /\ ~cropResult.panicked
        /\ Len(cropResult.text) < Len(toCrop)
        /\ cropResult.text = SubSeq(toCrop, 1, Len(cropResult.text))
        /\ cropResult.cropped > 0
        /\ cropResult.cropped = Len(toCrop) - Len(cropResult.text)

\* An output has been cropped by messageCreate's buffer and the
\* refinement moved the cut back by two.
C9_Witness ==
    /\ pc = "crop.done" /\ MustCrop
    /\ buffer = MessageCreateBuffer
    /\ Len(cropResult.text) = RawEnd(Len(toCrop), buffer) - 2

----------------------------------------------------------------------------
(* Properties of the handlers *)

\* A fenced code message with no line between the opening and the
\* closing fence.
EmptyBody(text) == WellFormedFence(text) /\ Len(ContentLines(text)) = 2

ExecCalls == { n \in 1..Len(events) : events[n].kind = "exec" }

\* The follow-ups that tell the user why nothing was run.
Rejections ==
    { n \in 1..Len(events) :
        /\ events[n].kind = "followup"
        /\ events[n].what \in {"notCode", "noLanguage", "noCodeMessage",
                               "unsupported"} }

\* C7: a fenced code message with an empty body is rejected with a message
\* to the user, and Exec is not called for it.
C7_EmptyBodyRejected ==
    (pc = "bot.handled" /\ EmptyBody(message)) =>
        ExecCalls = {} /\ Rejections # {}

----------------------------------------------------------------------------
(* Properties of the replies of the handlers of bot.go *)

Followups == { n \in 1..Len(events) : events[n].kind = "followup" }

FailedExecCalls == { n \in ExecCalls : ~events[n].ok }

\* C12: a run of "Run Code" or "run" of bot.go calls Exec at most once;
\* when Exec returns an error, the run sends exactly one follow-up, whose
\* content is the error between two fences after the sentence "Error
\* executing code.", sends no output fragment, and Exec is the last call
\* but that follow-up.
C12_ExecOnceErrorOnce ==
    pc = "bot.handled" /\ build = "bot.go" =>
        /\ Cardinality(ExecCalls) <= 1
        /\ \A n \in FailedExecCalls :
              /\ Cardinality(Followups) = 1
              /\ \A k \in Followups :
                    /\ k > n
                    /\ events[k].what = "execError"
                    /\ events[k].text =
                           <<"Error executing code.">> \o Fenced(events[n].err)
              /\ \A k \in 1..Len(events) : k > n => events[k].kind # "exec"

\* Exec returned an error in a run of bot.go and the error was sent.
C12_Witness ==
    /\ pc = "bot.handled" /\ build = "bot.go"
    /\ FailedExecCalls # {}
    /\ \E k \in Followups : events[k].what = "execError" /\ events[k].ok

\* The sends of a response that returned an error: follow-ups of the
\* interaction handlers and ChannelMessageSend of sendMessage, the
\* fallback notice itself excepted.
FailedSends ==
    { n \in 1..Len(events) :
        /\ events[n].kind \in {"followup", "send"}
        /\ events[n].what # "fallback"
        /\ ~events[n].ok }

IsFallback(n) ==
    /\ n \in 1..Len(events)
    /\ events[n].kind \in {"followup", "send"}
    /\ events[n].what = "fallback"

\* C13: every failed send of a response is followed by a line of the
\* error log and by exactly one attempt to send a fallback notice, and
\* the handler does not panic afterwards.
C13_FailedSendFallback ==
    pc = "bot.handled" =>
        \A n \in FailedSends :
            /\ n + 1 <= Len(events) /\ events[n + 1].kind = "log"
            /\ IsFallback(n + 2) /\ ~IsFallback(n + 3)
            /\ \A k \in 1..Len(events) : k > n => events[k].kind # "panic"

\* The canonical names of the registry the running build resolves
\* against: the keys of languageMappings (the elements of languages) in
\* bot.go, the keys of the static map and allowedLanguages in part_000.
Canonical ==
    IF build = "bot.go"
    THEN DOMAIN languageMappings \cap { languages[n] : n \in 1..Len(languages) }
    ELSE IF interaction.command = "messageCreate"
    THEN { allowedLanguages[n] : n \in 1..Len(allowedLanguages) }
    ELSE { languages_part000[n].language : n \in 1..Len(languages_part000) }

\* C14: the language argument of every call of Exec is a canonical name
\* of the registry, whether it came from the fence tag or from the
\* option of /run.
C14_ExecLanguageCanonical ==
    pc = "bot.handled" =>
        \A n \in ExecCalls : events[n].lang \in Canonical

\* /run was given a language option and Exec ran with it.
C14_Witness ==
    /\ pc = "bot.handled" /\ interaction.command = "run"
    /\ interaction.option.given
    /\ \E n \in ExecCalls : events[n].lang = interaction.option.value

IsFragmentSend(e) == e.kind = "followup" /\ e.what = "fragment"

\* The follow-ups of the run that carry a fragment, in the order sent.
FragmentSends == SelectSeq(events, IsFragmentSend)

\* C15: the contents of the fragment follow-ups of a run, in the order
\* they are sent, are the fragments splitOutput returned for the output of
\* Exec, each once and in the returned order, whichever sends failed.
C15_FragmentsInOrder ==
    pc = "bot.handled" /\ interaction.command \in {"Run Code", "run"} =>
        /\ \A n \in ExecCalls :
              events[n].ok =>
                  [k \in 1..Len(FragmentSends) |-> FragmentSends[k].text]
                      = splitOutput(events[n].output, ChunkLimit)
        /\ (\A n \in ExecCalls : ~events[n].ok) => FragmentSends = <<>>

\* Three fragments or more were sent, the first send failed and a later
\* one succeeded.
C15_Witness ==
    /\ pc = "bot.handled" /\ interaction.command \in {"Run Code", "run"}
    /\ Len(FragmentSends) >= 3
    /\ ~FragmentSends[1].ok
    /\ FragmentSends[Len(FragmentSends)].ok

----------------------------------------------------------------------------
(* Properties of the separator refinement of cropMessage *)

\* The cut index after the digit correction, before the refinement.
CutIndex == RawEnd(Len(toCrop), buffer)

\* The byte of the output at a 0-based index.
ByteAt(n) == toCrop[n + 1]

\* C16 as stated: the refinement looks at output[end-2] and output[end-1];
\* a non-slash followed by a slash moves the cut back by two, otherwise a
\* slash at output[end-1] moves it back by one, otherwise it stays.
C16_AdjacentPair ==
    (pc = "crop.done" /\ MustCrop) =>
        Len(cropResult.text) =
            IF ByteAt(CutIndex - 2) # "/" /\ ByteAt(CutIndex - 1) = "/"
            THEN CutIndex - 2
            ELSE IF ByteAt(CutIndex - 1) = "/" THEN CutIndex - 1
            ELSE CutIndex

\* C16 as amended: a slash at output[end-2] that follows a non-slash at
\* output[end-3] moves the cut back by two; otherwise a slash at
\* output[end-1] moves it back by one; otherwise it stays.
C16_SeparatorRefinement ==
    (pc = "crop.done" /\ MustCrop) =>
        /\ ~cropResult.panicked
        /\ Len(cropResult.text) =
               IF ByteAt(CutIndex - 3) # "/" /\ ByteAt(CutIndex - 2) = "/"
               THEN CutIndex - 2
               ELSE IF ByteAt(CutIndex - 1) = "/" THEN CutIndex - 1
               ELSE CutIndex

\* The two bytes before the cut are a non-slash and a slash, and the cut
\* moved back by one.
C16_Witness ==
    /\ pc = "crop.done" /\ MustCrop
    /\ ByteAt(CutIndex - 2) # "/" /\ ByteAt(CutIndex - 1) = "/"
    /\ Len(cropResult.text) = CutIndex - 1

====
